---- MODULE Spec2Model ----
(***************************************************************************)
(* GitStorage (pkg/storage/git_store.go): a cache.ResourceEventHandler     *)
(* that records every add/update/delete notification as a commit in a git  *)
(* repository and republishes .git/info/refs after each event.             *)
(*                                                                         *)
(* Strings are sequences of tokens, file contents are sequences of bytes,  *)
(* a tree (working tree, staging index, commit tree) is a function from    *)
(* the names of the files that exist in it to their contents.  A commit    *)
(* hash is the position of the commit in the object store.                 *)
(***************************************************************************)
EXTENDS Integers, Sequences, FiniteSets, TLC

\* Number of notifications the dispatcher delivers in one run.
MaxEvents == 2
\* Number of I/O failures the environment injects in one run.
MaxFaults == 1

\* The goroutines of the dispatcher that call the three handlers.
Procs == {1, 2}

\* ------------------------------------------------------------------ inputs

Unstructured(kind, version, group, name, data, encodable) ==
    [type |-> "Unstructured", kind |-> kind, version |-> version, group |-> group,
     name |-> name, data |-> data, encodable |-> encodable]

\* An object of any other Go type: a typed API object, or the
\* cache.DeletedFinalStateUnknown tombstone an informer hands to OnDelete.
NotUnstructured ==
    [type |-> "other", kind |-> "", version |-> "", group |-> "",
     name |-> "", data |-> <<>>, encodable |-> FALSE]

NoObj ==
    [type |-> "nil", kind |-> "", version |-> "", group |-> "",
     name |-> "", data |-> <<>>, encodable |-> FALSE]

Objs ==
    { Unstructured("ConfigMap", "v1", "", "a", <<"1">>, TRUE),
      Unstructured("ConfigMap", "v1", "", "a", <<"1", "2">>, TRUE),
      Unstructured("CONFIGMAP", "v1", "", "b", <<"1">>, TRUE),
      Unstructured("Secret", "v1", "", "a", <<"1">>, TRUE),
      Unstructured("Secret", "v1", "", "a", <<"2">>, FALSE),
      NotUnstructured }

\* ------------------------------------------------------------------ trees

EmptyTree == <<>>

Has(t, n) == n \in DOMAIN t

Put(t, n, c) == [x \in (DOMAIN t) \cup {n} |-> IF x = n THEN c ELSE t[x]]

Remove(t, n) == [x \in (DOMAIN t) \ {n} |-> t[x]]

\* ------------------------------------------------------------------ serializer

\* strings.ToLower on one token.
ToLower(s) ==
    CASE s = "ConfigMap" -> "configmap"
      [] s = "CONFIGMAP" -> "configmap"
      [] s = "Secret" -> "secret"
      [] OTHER -> s

\* A file name built without strings.ToLower.
resourceFilename_NoLower(gvk) ==
    <<gvk.kind, ".", gvk.version, ".", gvk.group, ".yaml">>

\* A file name that also carries the instance name of the object.
resourceFilename_WithInstance(gvk) ==
    <<ToLower(gvk.kind), ".", gvk.version, ".", gvk.group, ".", gvk.name, ".yaml">>

\* strings.ToLower(fmt.Sprintf("%s.%s.%s.yaml", gvk.Kind, gvk.Version, gvk.Group))
resourceFilename(gvk) ==
    LET s == <<gvk.kind, ".", gvk.version, ".", gvk.group, ".yaml">>
    IN  [i \in DOMAIN s |-> ToLower(s[i])]

\* The YAML rendering of the whole object: kind, instance name and payload.
objectYAML(o) == <<o.kind, o.name>> \o o.data

\* decodeUnstructuredObject: the type assertion obj.(*unstructured.Unstructured)
\* has no comma-ok form, so an object of another type panics; an object that
\* runtime.Encode or yaml.JSONToYAML rejects returns the file name, no content
\* and the error.
decodeUnstructuredObject(o) ==
    IF o.type # "Unstructured"
    THEN [panic |-> TRUE, name |-> <<>>, content |-> <<>>, err |-> FALSE]
    ELSE IF ~o.encodable
    THEN [panic |-> FALSE, name |-> resourceFilename(o), content |-> <<>>, err |-> TRUE]
    ELSE [panic |-> FALSE, name |-> resourceFilename(o), content |-> objectYAML(o),
          err |-> FALSE]

\* ------------------------------------------------------------------ working tree

\* What the environment can make fail inside one call of write: the first
\* Lstat (or Worktree), the Remove of the old file, Create, Write after k
\* bytes, or Close.
WriteFaults(content) ==
    {[at |-> a, k |-> 0] : a \in {"none", "lstat", "remove", "create", "close"}}
        \cup {[at |-> "write", k |-> k] : k \in 0 .. (Len(content) - 1)}

\* billy Filesystem.Create: O_RDWR|O_CREATE|O_TRUNC, the file is left empty.
fsCreate(t, name) == Put(t, name, <<>>)

\* File.Write of the first n bytes of p at offset 0 of the open file.
fileWrite(t, name, p, n) ==
    LET old == t[name]
        new == SubSeq(p, 1, n)
    IN  Put(t, name, new \o SubSeq(old, n + 1, Len(old)))

\* A remove that treats a file that does not exist as removed.
delete_Idempotent(t, name, fail) ==
    IF fail THEN [err |-> TRUE, wt |-> t] ELSE [err |-> FALSE, wt |-> Remove(t, name)]

\* GitStorage.delete: t.Filesystem.Remove(name); removing a file that does
\* not exist is an error.
delete(t, name, fail) ==
    IF fail \/ ~Has(t, name)
    THEN [err |-> TRUE, wt |-> t]
    ELSE [err |-> FALSE, wt |-> Remove(t, name)]

\* The mutant of write: the file is rewritten in place, without the delete
\* that the code performs first and without truncation.
write_InPlace(t, name, content, f) ==
    IF f.at # "none"
    THEN [err |-> TRUE, wt |-> t, removed |-> FALSE, reentries |-> 0]
    ELSE [err |-> FALSE,
          wt |-> fileWrite(IF Has(t, name) THEN t ELSE fsCreate(t, name),
                           name, content, Len(content)),
          removed |-> FALSE, reentries |-> 0]

\* GitStorage.write: when the file does not exist, create, write, close;
\* when it exists, delete it and call write again.  removed tells whether
\* the delete step ran and succeeded, reentries how many times write called
\* itself.
RECURSIVE write(_, _, _, _)
write(t, name, content, f) ==
    IF f.at = "lstat"
    THEN [err |-> TRUE, wt |-> t, removed |-> FALSE, reentries |-> 0]
    ELSE IF ~Has(t, name)
    THEN IF f.at = "create"
         THEN [err |-> TRUE, wt |-> t, removed |-> FALSE, reentries |-> 0]
         ELSE IF f.at = "write"
         THEN [err |-> TRUE, wt |-> fileWrite(fsCreate(t, name), name, content, f.k),
               removed |-> FALSE, reentries |-> 0]
         ELSE [err |-> (f.at = "close"),
               wt |-> fileWrite(fsCreate(t, name), name, content, Len(content)),
               removed |-> FALSE, reentries |-> 0]
    ELSE LET d == delete(t, name, f.at = "remove")
         IN  IF d.err
             THEN [err |-> TRUE, wt |-> t, removed |-> FALSE, reentries |-> 0]
             ELSE [write(d.wt, name, content, [f EXCEPT !.at =
                                     IF @ = "remove" THEN "none" ELSE @])
                   EXCEPT !.removed = TRUE, !.reentries = @ + 1]

\* ------------------------------------------------------------------ repository

HEAD == [name |-> "HEAD", type |-> "symbolic", target |-> "ref: refs/heads/master"]

Branch(hash) == [name |-> "refs/heads/master", type |-> "hash", target |-> hash]

\* The hash the current branch points to, "" in a repository with no commit.
BranchTip(rs) ==
    IF \E i \in DOMAIN rs : rs[i].name = "refs/heads/master"
    THEN rs[CHOOSE i \in DOMAIN rs : rs[i].name = "refs/heads/master"].target
    ELSE ""

\* The tree of the commit with the given hash; the empty tree for "".
TreeOf(objects, hash) ==
    IF hash = "" THEN EmptyTree
    ELSE objects[CHOOSE i \in DOMAIN objects : objects[i].hash = hash].tree

\* A commit that is stored without moving the branch.
updateHEAD_Skipped(rs, hash) == rs

\* Worktree.updateHEAD: the branch HEAD names is created or moved.
updateHEAD(rs, hash) ==
    IF BranchTip(rs) = ""
    THEN Append(rs, Branch(hash))
    ELSE [i \in DOMAIN rs |->
            IF rs[i].name = "refs/heads/master" THEN Branch(hash) ELSE rs[i]]

\* A status that looks only at the files present in the working tree, so
\* that a removed file is not seen as a change.
IsClean_PresentFilesOnly(objects, rs, index, t) ==
    \A n \in DOMAIN t :
        /\ Has(index, n) /\ index[n] = t[n]
        /\ Has(TreeOf(objects, BranchTip(rs)), n)
        /\ TreeOf(objects, BranchTip(rs))[n] = t[n]

\* Status.IsClean: no file differs between the HEAD commit, the staging
\* index and the working tree; an untracked file counts as a difference.
IsClean(objects, rs, index, t) ==
    /\ TreeOf(objects, BranchTip(rs)) = index
    /\ index = t

\* A staging step that leaves out a file the index does not know yet.
Add_KnownOnly(index, t, name) ==
    IF ~Has(index, name) THEN index
    ELSE IF Has(t, name) THEN Put(index, name, t[name]) ELSE Remove(index, name)

\* Worktree.Add(name): the file's working-tree state is staged; a file that
\* is neither on disk nor in the index is an error.
AddFails(index, t, name) == ~Has(t, name) /\ ~Has(index, name)

Add(index, t, name) ==
    IF Has(t, name) THEN Put(index, name, t[name]) ELSE Remove(index, name)

\* CommitOptions.All: every tracked file that is modified or deleted in the
\* working tree is staged; untracked files are not.
autoAddModifiedAndDeleted(index, t) ==
    [x \in (DOMAIN index) \cap (DOMAIN t) |-> t[x]]

Author == [name |-> "config-history-operator",
           email |-> "config-history-operator@openshift.io"]

\* A committer signature filled with the author's identity.
Committer_AsAuthor(component) == Author

Committer(component) ==
    [name |-> component, email |-> <<component, "@openshift.io">>]

CommitFaults == {"none", "status", "add", "commit"}

\* A commit that rewrites the history: the new commit replaces the commits
\* made so far instead of being added after them.
commit_Rewrite(objects, rs, index, t, name, component, message, f, event) ==
    LET same == [err |-> FALSE, hash |-> "", objects |-> objects, refs |-> rs,
                 idx |-> index]
    IN  IF f # "none" \/ AddFails(index, t, name) THEN [same EXCEPT !.err = TRUE]
        ELSE IF IsClean(objects, rs, index, t) THEN same
        ELSE LET all == autoAddModifiedAndDeleted(Add(index, t, name), t)
                 c == [hash |-> "1", parent |-> "", tree |-> all,
                       message |-> message, author |-> Author,
                       committer |-> Committer(component), event |-> event]
             IN  [err |-> FALSE, hash |-> "1", objects |-> <<c>>,
                  refs |-> updateHEAD(rs, "1"), idx |-> all]

\* GitStorage.commit(name, component, message).  event is the ticket of the
\* notification that runs it (bookkeeping, not part of the commit object).
commit(objects, rs, index, t, name, component, message, f, event) ==
    LET same == [err |-> FALSE, hash |-> "", objects |-> objects, refs |-> rs,
                 idx |-> index]
    IN  IF f = "status" THEN [same EXCEPT !.err = TRUE]
        ELSE IF IsClean(objects, rs, index, t) THEN same
        ELSE IF f = "add" \/ AddFails(index, t, name) THEN [same EXCEPT !.err = TRUE]
        ELSE LET staged == Add(index, t, name)
             IN  IF f = "commit"
                 THEN [same EXCEPT !.err = TRUE, !.idx = staged]
                 ELSE LET all == autoAddModifiedAndDeleted(staged, t)
                          h == ToString(Len(objects) + 1)
                          c == [hash |-> h, parent |-> BranchTip(rs), tree |-> all,
                                message |-> message, author |-> Author,
                                committer |-> Committer(component), event |-> event]
                      IN  [err |-> FALSE, hash |-> h, objects |-> Append(objects, c),
                           refs |-> updateHEAD(rs, h), idx |-> all]

\* ------------------------------------------------------------------ index file

NoFile == [exists |-> FALSE, data |-> <<>>]

RECURSIVE refLines(_)
\* refs.ForEach: one "<hash>\t<name>\n" line per hash reference.
refLines(rs) ==
    IF rs = <<>> THEN <<>>
    ELSE (IF rs[1].type = "hash"
          THEN << <<rs[1].target, "\t", rs[1].name, "\n">> >>
          ELSE <<>>) \o refLines(Tail(rs))

RefsFaults == {"none", "references", "mkdir", "open", "write"}

\* GitStorage.updateRefsFile: a failure to enumerate, to create .git/info or
\* to write the file panics.  A write that fails after the file was opened
\* leaves it truncated.
updateRefsFile(rs, file, f) ==
    IF f \in {"references", "mkdir", "open"}
    THEN [panic |-> TRUE, file |-> file]
    ELSE IF f = "write"
    THEN [panic |-> TRUE, file |-> [exists |-> TRUE, data |-> <<>>]]
    ELSE [panic |-> FALSE, file |-> [exists |-> TRUE, data |-> refLines(rs)]]

\* ------------------------------------------------------------------ state

VARIABLES
    pc,         \* where each caller is: idle, lock (blocked in s.Lock()), decode,
                \* write, delete, commit, refs, ret (returning), panic, gone
    handler,    \* the entry point each caller is in
    obj,        \* its argument
    local,      \* its locals: name, content, the stage that failed, hash
    mu,         \* the sync.Mutex: 0 when unlocked, else the caller holding it
    wt,         \* the working tree
    idx,        \* the staging index
    objects,    \* the commits of the repository, in creation order
    refs,       \* the references, in iteration order
    refsFile,   \* .git/info/refs
    crashed,    \* the process has exited after a panic
    nEvents,    \* notifications delivered so far
    nFaults,    \* I/O failures injected so far
    ticket,     \* bookkeeping: the position of each caller's event in lock order
    nTickets,   \* bookkeeping: locks acquired so far
    ran,        \* bookkeeping: the stages each caller's current call went through
    atLock,     \* bookkeeping: the repository and the number of failures as
                \* they were when the caller got the lock
    lastOK      \* bookkeeping: per file, the content of the last write that
                \* returned nil; no entry after a Remove that returned nil

vars == <<pc, handler, obj, local, mu, wt, idx, objects, refs, refsFile, crashed,
          nEvents, nFaults, ticket, nTickets, ran, atLock, lastOK>>

repoVars == <<wt, idx, objects, refs, refsFile>>

NoSnapshot ==
    [wt |-> EmptyTree, idx |-> EmptyTree, objects |-> <<>>, refs |-> <<>>,
     refsFile |-> NoFile]

NoLocal == [name |-> <<>>, content |-> <<>>, failed |-> "", hash |-> ""]

\* The commit an earlier run of the program left for the ConfigMap type.
FirstCommit ==
    LET o == Unstructured("ConfigMap", "v1", "", "a", <<"1">>, TRUE)
        n == resourceFilename(o)
    IN  [hash |-> "1", parent |-> "", tree |-> Put(EmptyTree, n, objectYAML(o)),
         message |-> n \o <<" added">>, author |-> Author,
         committer |-> Committer("operator"), event |-> 0]

\* NewGitStorage: git.PlainInit when <path>/.git does not exist, then
\* git.PlainOpen.  An existing repository is one an earlier run left after
\* its first commit, when that run ended inside updateRefsFile before the
\* index file was written.
Repositories ==
    { [wt |-> EmptyTree, idx |-> EmptyTree, objects |-> <<>>, refs |-> <<HEAD>>,
       refsFile |-> NoFile] }
    \cup
    { [wt |-> FirstCommit.tree, idx |-> FirstCommit.tree, objects |-> <<FirstCommit>>,
       refs |-> <<HEAD, Branch("1")>>, refsFile |-> NoFile] }

Init ==
    /\ \E r \in Repositories :
         /\ wt = r.wt
         /\ idx = r.idx
         /\ objects = r.objects
         /\ refs = r.refs
         /\ refsFile = r.refsFile
         /\ lastOK = r.wt
    /\ pc = [p \in Procs |-> "idle"]
    /\ handler = [p \in Procs |-> ""]
    /\ obj = [p \in Procs |-> NoObj]
    /\ local = [p \in Procs |-> NoLocal]
    /\ mu = 0
    /\ crashed = FALSE
    /\ nEvents = 0
    /\ nFaults = 0
    /\ ticket = [p \in Procs |-> 0]
    /\ nTickets = 0
    /\ ran = [p \in Procs |-> <<>>]
    /\ atLock = [p \in Procs |-> NoSnapshot]

\* ------------------------------------------------------------------ entry points

\* A caller enters a handler and blocks in s.Lock().  The handler reads its
\* argument first in decodeUnstructuredObject, where the model draws it.
Enter(p) ==
    /\ ~crashed
    /\ pc[p] = "idle"
    /\ nEvents < MaxEvents
    /\ nEvents' = nEvents + 1
    /\ pc' = [pc EXCEPT ![p] = "lock"]
    /\ UNCHANGED <<obj, local, mu, repoVars, crashed, nFaults, ticket, nTickets, ran,
                   atLock, lastOK>>

OnAdd(p) ==
    /\ Enter(p)
    /\ handler' = [handler EXCEPT ![p] = "OnAdd"]

OnUpdate(p) ==
    /\ Enter(p)
    /\ handler' = [handler EXCEPT ![p] = "OnUpdate"]

OnDelete(p) ==
    /\ Enter(p)
    /\ handler' = [handler EXCEPT ![p] = "OnDelete"]

\* A mutex that never blocks.
Unlocked_Always(m) == TRUE

\* sync.Mutex.Lock returns only when the mutex is unlocked.
Unlocked(m) == m = 0

\* s.Lock()
Lock(p) ==
    /\ ~crashed
    /\ pc[p] = "lock"
    /\ Unlocked(mu)
    /\ mu' = p
    /\ pc' = [pc EXCEPT ![p] = "decode"]
    /\ nTickets' = nTickets + 1
    /\ ticket' = [ticket EXCEPT ![p] = nTickets + 1]
    /\ atLock' = [atLock EXCEPT ![p] =
                    [wt |-> wt, idx |-> idx, objects |-> objects, refs |-> refs,
                     refsFile |-> refsFile]]
    /\ UNCHANGED <<handler, obj, local, repoVars, crashed, nEvents, nFaults, ran, lastOK>>

\* name, content, err := decodeUnstructuredObject(obj)
Decode(p) ==
    /\ ~crashed
    /\ pc[p] = "decode"
    /\ \E o \in Objs :
         LET d == decodeUnstructuredObject(o)
         IN  /\ obj' = [obj EXCEPT ![p] = o]
             /\ local' = [local EXCEPT ![p] =
                     [@ EXCEPT !.name = d.name, !.content = d.content,
                               !.failed = IF d.panic \/ d.err THEN "decode" ELSE ""]]
             /\ pc' = [pc EXCEPT ![p] =
                     IF d.panic THEN "panic"
                     ELSE IF d.err THEN "ret"
                     ELSE IF handler[p] = "OnDelete" THEN "delete" ELSE "write"]
    /\ ran' = [ran EXCEPT ![p] = Append(@, "decode")]
    /\ UNCHANGED <<handler, mu, repoVars, crashed, nEvents, nFaults, ticket,
                   nTickets, atLock, lastOK>>

\* The failures the environment may still inject.
MayFail(failing) == ~failing \/ nFaults < MaxFaults

\* A handler that goes on to the commit after a failed write.
AfterWrite_GoOn(err) == "commit"

\* if err := s.write(name, content); err != nil { ...; return }
AfterWrite(err) == IF err THEN "ret" ELSE "commit"

\* s.write(name, content) in OnAdd and OnUpdate
Write(p) ==
    /\ ~crashed
    /\ pc[p] = "write"
    /\ \E f \in WriteFaults(local[p].content) :
         LET w == write(wt, local[p].name, local[p].content, f)
         IN  /\ MayFail(f.at # "none")
             /\ nFaults' = nFaults + (IF f.at # "none" THEN 1 ELSE 0)
             /\ wt' = w.wt
             /\ lastOK' = IF ~w.err THEN Put(lastOK, local[p].name, local[p].content)
                          ELSE IF w.removed THEN Remove(lastOK, local[p].name)
                          ELSE lastOK
             /\ local' = [local EXCEPT ![p].failed = IF w.err THEN "write" ELSE ""]
             /\ pc' = [pc EXCEPT ![p] = AfterWrite(w.err)]
    /\ ran' = [ran EXCEPT ![p] = Append(@, "write")]
    /\ UNCHANGED <<handler, obj, mu, idx, objects, refs, refsFile, crashed, nEvents,
                   ticket, nTickets, atLock>>

\* s.delete(name) in OnDelete
Delete(p) ==
    /\ ~crashed
    /\ pc[p] = "delete"
    /\ \E fail \in BOOLEAN :
         LET d == delete(wt, local[p].name, fail)
         IN  /\ MayFail(fail)
             /\ nFaults' = nFaults + (IF fail THEN 1 ELSE 0)
             /\ wt' = d.wt
             /\ lastOK' = IF d.err THEN lastOK ELSE Remove(lastOK, local[p].name)
             /\ local' = [local EXCEPT ![p].failed = IF d.err THEN "delete" ELSE ""]
             /\ pc' = [pc EXCEPT ![p] = IF d.err THEN "ret" ELSE "commit"]
    /\ ran' = [ran EXCEPT ![p] = Append(@, "delete")]
    /\ UNCHANGED <<handler, obj, mu, idx, objects, refs, refsFile, crashed, nEvents,
                   ticket, nTickets, atLock>>

\* fmt.Sprintf("%s added", name), "%s modified", and "%q removed"
Message(h, name) ==
    CASE h = "OnAdd" -> name \o <<" added">>
      [] h = "OnUpdate" -> name \o <<" modified">>
      [] OTHER -> <<"\"">> \o name \o <<"\"", " removed">>

\* A handler that returns when the commit failed.
AfterCommit_Return(err) == IF err THEN "ret" ELSE "refs"

\* if err != nil { klog.Warningf(...) } and then s.updateRefsFile()
AfterCommit(err) == "refs"

\* hash, err := s.commit(name, "operator", message); an error is logged and
\* the handler goes on.
Commit(p) ==
    /\ ~crashed
    /\ pc[p] = "commit"
    /\ \E f \in CommitFaults :
         LET c == commit(objects, refs, idx, wt, local[p].name, "operator",
                         Message(handler[p], local[p].name), f, ticket[p])
         IN  /\ MayFail(f # "none")
             /\ nFaults' = nFaults + (IF f # "none" THEN 1 ELSE 0)
             /\ objects' = c.objects
             /\ refs' = c.refs
             /\ idx' = c.idx
             /\ local' = [local EXCEPT ![p] =
                     [@ EXCEPT !.hash = c.hash,
                               !.failed = IF c.err THEN "commit" ELSE ""]]
             /\ pc' = [pc EXCEPT ![p] = AfterCommit(c.err)]
    /\ ran' = [ran EXCEPT ![p] = Append(@, "commit")]
    /\ UNCHANGED <<handler, obj, mu, wt, refsFile, crashed, nEvents, ticket, nTickets,
                   atLock, lastOK>>

\* s.updateRefsFile()
UpdateRefsFile(p) ==
    /\ ~crashed
    /\ pc[p] = "refs"
    /\ \E f \in RefsFaults :
         LET u == updateRefsFile(refs, refsFile, f)
         IN  /\ MayFail(f # "none")
             /\ nFaults' = nFaults + (IF f # "none" THEN 1 ELSE 0)
             /\ refsFile' = u.file
             /\ pc' = [pc EXCEPT ![p] = IF u.panic THEN "panic" ELSE "ret"]
             /\ local' = [local EXCEPT ![p].failed = IF u.panic THEN "refs" ELSE @]
    /\ ran' = [ran EXCEPT ![p] = Append(@, "updateRefsFile")]
    /\ UNCHANGED <<handler, obj, mu, wt, idx, objects, refs, crashed, nEvents, ticket,
                   nTickets, atLock, lastOK>>

\* An Unlock placed at the end of the handler instead of a deferred one: a
\* panic leaves the handler with the mutex still locked.
Unlock_NotOnPanic(p) ==
    /\ ~crashed
    /\ pc[p] \in {"ret", "panic"}
    /\ IF pc[p] = "panic"
       THEN /\ pc' = [pc EXCEPT ![p] = "gone"]
            /\ UNCHANGED <<mu, handler, obj, local, ticket, ran, atLock>>
       ELSE /\ mu' = 0
            /\ pc' = [pc EXCEPT ![p] = "idle"]
            /\ handler' = [handler EXCEPT ![p] = ""]
            /\ obj' = [obj EXCEPT ![p] = NoObj]
            /\ local' = [local EXCEPT ![p] = NoLocal]
            /\ ticket' = [ticket EXCEPT ![p] = 0]
            /\ ran' = [ran EXCEPT ![p] = <<>>]
            /\ atLock' = [atLock EXCEPT ![p] = NoSnapshot]
    /\ UNCHANGED <<repoVars, crashed, nEvents, nFaults, nTickets, lastOK>>

\* defer s.Unlock(): runs when the handler returns and when it panics.
Unlock(p) ==
    /\ ~crashed
    /\ pc[p] \in {"ret", "panic"}
    /\ mu' = 0
    /\ IF pc[p] = "panic"
       THEN /\ pc' = [pc EXCEPT ![p] = "gone"]
            /\ UNCHANGED <<handler, obj, local, ticket, ran, atLock>>
       ELSE /\ pc' = [pc EXCEPT ![p] = "idle"]
            /\ handler' = [handler EXCEPT ![p] = ""]
            /\ obj' = [obj EXCEPT ![p] = NoObj]
            /\ local' = [local EXCEPT ![p] = NoLocal]
            /\ ticket' = [ticket EXCEPT ![p] = 0]
            /\ ran' = [ran EXCEPT ![p] = <<>>]
            /\ atLock' = [atLock EXCEPT ![p] = NoSnapshot]
    /\ UNCHANGED <<repoVars, crashed, nEvents, nFaults, nTickets, lastOK>>

\* A panic that left the handler: the Go runtime ends the process.
Exit ==
    /\ ~crashed
    /\ \E p \in Procs : pc[p] = "gone"
    /\ crashed' = TRUE
    /\ UNCHANGED <<pc, handler, obj, local, mu, repoVars, nEvents, nFaults, ticket,
                   nTickets, ran, atLock, lastOK>>

Next ==
    \/ \E p \in Procs : OnAdd(p)
    \/ \E p \in Procs : OnUpdate(p)
    \/ \E p \in Procs : OnDelete(p)
    \/ \E p \in Procs : Lock(p)
    \/ \E p \in Procs : Decode(p)
    \/ \E p \in Procs : Write(p)
    \/ \E p \in Procs : Delete(p)
    \/ \E p \in Procs : Commit(p)
    \/ \E p \in Procs : UpdateRefsFile(p)
    \/ \E p \in Procs : Unlock(p)
    \/ Exit

Spec == Init /\ [][Next]_vars

\* The scheduling the handlers run under: a goroutine that can take its next
\* step eventually takes it, the runtime ends the process after a panic that
\* left a handler, and sync.Mutex hands the lock to every waiter in the end
\* (a waiter that failed to get the lock for 1ms switches the mutex to
\* starvation mode, where Unlock passes ownership to the waiter at the front).
FairSpec ==
    /\ Spec
    /\ \A p \in Procs :
           /\ SF_vars(Lock(p))
           /\ WF_vars(Decode(p))
           /\ WF_vars(Write(p))
           /\ WF_vars(Delete(p))
           /\ WF_vars(Commit(p))
           /\ WF_vars(UpdateRefsFile(p))
           /\ WF_vars(Unlock(p))
    /\ WF_vars(Exit)

\* ------------------------------------------------------------------ properties

\* The caller is between s.Lock() and the deferred s.Unlock().
InCall(p) == pc[p] \in {"decode", "write", "delete", "commit", "refs", "ret", "panic"}

\* The caller's current call went through the stage.
Ran(p, stage) == \E i \in DOMAIN ran[p] : ran[p][i] = stage

\* The hash the branch points to in the last commit made.
LastCommit == IF objects = <<>> THEN "" ELSE objects[Len(objects)].hash

\* The index file lists exactly the hash references of the repository.
Published == refsFile.data = refLines(refs)

\* C1 (mutual exclusion): at most one caller is between its lock acquisition
\* and its lock release, that caller is the one the mutex records, and a
\* caller whose call went through any stage (decode, write, delete, commit,
\* updateRefsFile) and has not yet released the lock is that caller.
C1_MutualExclusion ==
    /\ Cardinality({p \in Procs : InCall(p)}) <= 1
    /\ \A p \in Procs : InCall(p) => mu = p
    /\ \A p \in Procs : (ran[p] # <<>> /\ pc[p] # "gone") => InCall(p) /\ mu = p

\* C1 witness: one caller is past its commit stage holding the lock while
\* the other is blocked in s.Lock().
C1_Witness ==
    \E p, q \in Procs :
        /\ p # q
        /\ mu = p
        /\ Ran(p, "commit")
        /\ pc[q] = "lock"

\* C2 (order preservation): the commits appear in the history in the order
\* in which their events acquired the lock; each commit's parent is the
\* commit before it, the branch points to the last one, and no event
\* contributes more than one commit.
C2_OrderPreserved ==
    /\ \A i \in DOMAIN objects :
         objects[i].parent = IF i = 1 THEN "" ELSE objects[i - 1].hash
    /\ BranchTip(refs) = LastCommit
    /\ \A i, j \in DOMAIN objects : i < j => objects[i].event < objects[j].event

\* C2 witness: two events of this run each created a commit.
C2_Witness ==
    /\ Len(objects) >= 2
    /\ objects[Len(objects) - 1].event >= 1
    /\ objects[Len(objects)].event > objects[Len(objects) - 1].event

\* C3 (no-op updates never grow the history), as claimed: once the commit
\* stage of an OnAdd or OnUpdate has run, if the event's content equals the
\* content of the file in the commit the branch pointed to when the event
\* started, the repository holds the same commits as when it started.
C3_NoopNeverGrows ==
    \A p \in Procs :
        LET before == TreeOf(atLock[p].objects, BranchTip(atLock[p].refs))
        IN  ( /\ Ran(p, "commit")
              /\ handler[p] \in {"OnAdd", "OnUpdate"}
              /\ Has(before, local[p].name)
              /\ before[local[p].name] = local[p].content )
            => objects = atLock[p].objects

\* C4 (index consistency), as claimed: whenever a handler is about to
\* return, the index file lists exactly the hash references of the
\* repository.
C4_IndexConsistent ==
    \A p \in Procs : pc[p] = "ret" => Published

\* C5 (snapshot file invariant), as claimed: every file of the working tree
\* holds the content of the last write of it that returned nil, and a file
\* whose last successful operation was a remove does not exist.
C5_SnapshotIsLastWrite == wt = lastOK

\* C6 (decode failure is local), as claimed: a call whose decode stage
\* failed produced no content, changed nothing in the repository, does not
\* panic, and is about to return.
C6_DecodeFailureLocal ==
    \A p \in Procs :
        local[p].failed = "decode" =>
            /\ pc[p] = "ret"
            /\ local[p].content = <<>>
            /\ <<wt, idx, objects, refs, refsFile>> =
                   <<atLock[p].wt, atLock[p].idx, atLock[p].objects, atLock[p].refs,
                     atLock[p].refsFile>>

\* C7 (a commit failure does not skip the index publish): a call that went
\* through the commit stage holds the lock and either has updateRefsFile as
\* its next stage or ran it right after the commit, whatever the commit
\* returned; and when updateRefsFile has returned, the index file lists
\* exactly the hash references of the repository.
C7_PublishAfterCommit ==
    \A p \in Procs :
        (Ran(p, "commit") /\ pc[p] # "gone") =>
            /\ mu = p
            /\ \/ pc[p] = "refs" /\ ran[p][Len(ran[p])] = "commit"
               \/ /\ pc[p] \in {"ret", "panic"}
                  /\ ran[p][Len(ran[p])] = "updateRefsFile"
                  /\ ran[p][Len(ran[p]) - 1] = "commit"
            /\ pc[p] = "ret" => Published /\ refsFile.exists

\* C7 witness: the commit returned an error and updateRefsFile has run and
\* returned in the same call.
C7_Witness ==
    \E p \in Procs :
        /\ pc[p] = "ret"
        /\ local[p].failed = "commit"
        /\ Ran(p, "updateRefsFile")
        /\ BranchTip(refs) # ""

\* C8 (a write failure stops the event): a call of OnAdd or OnUpdate whose
\* write failed went through decode and write only, is about to return
\* without panicking, and left the commits, the references, the staging
\* index and the index file as they were when it got the lock.
C8_WriteFailureStops ==
    \A p \in Procs :
        local[p].failed = "write" =>
            /\ pc[p] = "ret"
            /\ mu = p
            /\ ran[p] = <<"decode", "write">>
            /\ <<idx, objects, refs, refsFile>> =
                   <<atLock[p].idx, atLock[p].objects, atLock[p].refs,
                     atLock[p].refsFile>>

\* C8 witness: a write failed after its delete step removed a committed
\* file, and the handler is about to return.
C8_Witness ==
    \E p \in Procs :
        /\ local[p].failed = "write"
        /\ pc[p] = "ret"
        /\ Has(atLock[p].wt, local[p].name)
        /\ ~Has(wt, local[p].name)

\* C9 (only an index failure is fatal), as claimed: a call panics exactly
\* when updateRefsFile failed, and once a call has panicked no other caller
\* gets the lock.
C9_OnlyIndexFailureFatal ==
    \A p \in Procs :
        /\ local[p].failed = "refs" => pc[p] \in {"panic", "gone"}
        /\ pc[p] \in {"panic", "gone"} =>
              /\ local[p].failed = "refs"
              /\ \A q \in Procs : ticket[q] <= ticket[p]

\* C10 (full overwrite): when write has returned nil, the file exists and
\* its bytes are exactly the content written.
C10_FullOverwrite ==
    \A p \in Procs :
        (pc[p] = "commit" /\ handler[p] \in {"OnAdd", "OnUpdate"}) =>
            /\ Has(wt, local[p].name)
            /\ wt[local[p].name] = local[p].content

\* C10 witness: write has returned nil over a file that was longer than the
\* new content.
C10_Witness ==
    \E p \in Procs :
        /\ pc[p] = "commit"
        /\ handler[p] \in {"OnAdd", "OnUpdate"}
        /\ Has(atLock[p].wt, local[p].name)
        /\ Len(atLock[p].wt[local[p].name]) > Len(local[p].content)
        /\ wt[local[p].name] = local[p].content

\* No stage of the caller's current call has failed so far.
Faultless(p) == local[p].failed = ""

\* The tree of the commit the branch pointed to when the caller got the lock.
TreeAtLock(p) == TreeOf(atLock[p].objects, BranchTip(atLock[p].refs))

\* The commits made since the caller got the lock.
NewCommits(p) == SubSeq(objects, Len(atLock[p].objects) + 1, Len(objects))

\* The caller's file was on disk, staged and committed when it got the lock.
Tracked(p) ==
    /\ Has(atLock[p].wt, local[p].name)
    /\ Has(atLock[p].idx, local[p].name)
    /\ Has(TreeAtLock(p), local[p].name)

\* C11 (delete of a tracked type): an OnDelete whose file existed and was
\* committed, and none of whose stages failed, has removed the file from the
\* working tree after its delete stage; after its commit stage exactly one
\* commit was added to the earlier ones, its tree does not hold the file and
\* the branch points to it; and it then runs updateRefsFile, after which the
\* index file lists the new branch hash.
C11_DeleteTracked ==
    \A p \in Procs :
        (handler[p] = "OnDelete" /\ Tracked(p) /\ Faultless(p)) =>
            /\ Ran(p, "delete") => ~Has(wt, local[p].name)
            /\ Ran(p, "commit") =>
                 /\ Len(NewCommits(p)) = 1
                 /\ SubSeq(objects, 1, Len(atLock[p].objects)) = atLock[p].objects
                 /\ ~Has(NewCommits(p)[1].tree, local[p].name)
                 /\ NewCommits(p)[1].parent = BranchTip(atLock[p].refs)
                 /\ BranchTip(refs) = NewCommits(p)[1].hash
                 /\ local[p].hash = NewCommits(p)[1].hash
                 /\ pc[p] \in {"refs", "ret"}
            /\ pc[p] = "ret" =>
                 /\ ran[p] = <<"decode", "delete", "commit", "updateRefsFile">>
                 /\ Published

\* C11 witness: an OnDelete of a committed file is about to return with its
\* removal commit made and published.
C11_Witness ==
    \E p \in Procs :
        /\ handler[p] = "OnDelete"
        /\ Tracked(p)
        /\ Faultless(p)
        /\ pc[p] = "ret"
        /\ Len(NewCommits(p)) = 1
        /\ ~Has(wt, local[p].name)

\* C12 (delete of an absent file): an OnDelete whose file did not exist when
\* it got the lock gets an error from its delete stage, went through decode
\* and delete only, is about to return without panicking, and left working
\* tree, staging index, commits, references and index file as they were.
C12_DeleteAbsent ==
    \A p \in Procs :
        ( /\ handler[p] = "OnDelete"
          /\ Ran(p, "delete")
          /\ ~Has(atLock[p].wt, local[p].name) ) =>
            /\ local[p].failed = "delete"
            /\ pc[p] = "ret"
            /\ mu = p
            /\ ran[p] = <<"decode", "delete">>
            /\ <<wt, idx, objects, refs, refsFile>> =
                   <<atLock[p].wt, atLock[p].idx, atLock[p].objects, atLock[p].refs,
                     atLock[p].refsFile>>

\* C12 witness: a second OnDelete of a file that an earlier OnDelete removed
\* and committed is about to return with the error, with no failure injected.
C12_Witness ==
    \E p \in Procs :
        /\ handler[p] = "OnDelete"
        /\ local[p].failed = "delete"
        /\ pc[p] = "ret"
        /\ nFaults = 0
        /\ ~Has(wt, local[p].name)
        /\ Len(objects) = 2

\* C13 (delete-then-add round trip): when the event right before an OnAdd
\* was an OnDelete that committed the removal of the same file, and no stage
\* of the OnAdd fails, then after its write stage the file holds exactly the
\* added content, and after its commit stage the history holds the removal
\* commit followed by one new commit with the message "<name> added" whose
\* tree holds the file with that content.
C13_DeleteThenAdd ==
    \A p \in Procs :
        LET old == atLock[p].objects
        IN  ( /\ handler[p] = "OnAdd"
              /\ Faultless(p)
              /\ Ran(p, "write")
              /\ old # <<>>
              /\ old[Len(old)].message = Message("OnDelete", local[p].name)
              /\ old[Len(old)].event = ticket[p] - 1 ) =>
                /\ Has(wt, local[p].name)
                /\ wt[local[p].name] = local[p].content
                /\ local[p].content = objectYAML(obj[p])
                /\ Ran(p, "commit") =>
                     /\ Len(NewCommits(p)) = 1
                     /\ objects[Len(old)] = old[Len(old)]
                     /\ ~Has(objects[Len(old)].tree, local[p].name)
                     /\ NewCommits(p)[1].message = Message("OnAdd", local[p].name)
                     /\ NewCommits(p)[1].parent = old[Len(old)].hash
                     /\ Has(NewCommits(p)[1].tree, local[p].name)
                     /\ NewCommits(p)[1].tree[local[p].name] = local[p].content

\* C13 witness: the OnAdd that follows the committed OnDelete is about to
\* return with its addition commit made.
C13_Witness ==
    \E p \in Procs :
        /\ handler[p] = "OnAdd"
        /\ pc[p] = "ret"
        /\ Faultless(p)
        /\ atLock[p].objects # <<>>
        /\ atLock[p].objects[Len(atLock[p].objects)].message =
               Message("OnDelete", local[p].name)
        /\ Len(NewCommits(p)) = 1
        /\ wt[local[p].name] = local[p].content

\* C14 (append-only history): in every step the commits held before are a
\* prefix of the commits held after, so none is removed, replaced or
\* reordered; and when the branch moves, it moves to a commit made in that
\* step whose parent is the commit the branch pointed to before.
C14_AppendOnly ==
    [][ /\ Len(objects') >= Len(objects)
        /\ SubSeq(objects', 1, Len(objects)) = objects
        /\ BranchTip(refs') # BranchTip(refs) =>
             /\ Len(objects') = Len(objects) + 1
             /\ objects'[Len(objects')].hash = BranchTip(refs')
             /\ objects'[Len(objects')].parent = BranchTip(refs) ]_vars

\* C14 witness: the history grew by the commit of the second event after the
\* first event of the run had contributed none.
C14_Witness ==
    /\ \E i \in DOMAIN objects : objects[i].event = 2
    /\ \A i \in DOMAIN objects : objects[i].event # 1
    /\ Len(objects) = 2

\* C15 (add/update commit and message): the file name of an object of kind
\* ConfigMap (in any case), version v1 and empty group is
\* "configmap.v1..yaml".  An OnAdd whose file is not in the last commit, or
\* an OnUpdate whose content differs from the file in the last commit, with
\* no failing stage, leaves the file holding the new content after its write
\* stage, and after its commit stage exactly one commit was added, with the
\* message "<name> added" for OnAdd and "<name> modified" for OnUpdate.
C15_AddUpdateCommit ==
    \A p \in Procs :
        LET n == local[p].name
            new == ~Has(TreeAtLock(p), n)
            differs == new \/ TreeAtLock(p)[n] # local[p].content
        IN  ( /\ Faultless(p)
              /\ Ran(p, "write")
              /\ \/ handler[p] = "OnAdd" /\ new
                 \/ handler[p] = "OnUpdate" /\ differs ) =>
                /\ ToLower(obj[p].kind) = "configmap" =>
                      n = <<"configmap", ".", "v1", ".", "", ".yaml">>
                /\ ToLower(obj[p].kind) = "secret" =>
                      n = <<"secret", ".", "v1", ".", "", ".yaml">>
                /\ Has(wt, n) /\ wt[n] = local[p].content
                /\ Ran(p, "commit") =>
                     /\ Len(NewCommits(p)) = 1
                     /\ SubSeq(objects, 1, Len(atLock[p].objects)) = atLock[p].objects
                     /\ NewCommits(p)[1].message =
                            n \o (IF handler[p] = "OnAdd" THEN <<" added">>
                                  ELSE <<" modified">>)
                     /\ NewCommits(p)[1].tree[n] = local[p].content
                     /\ local[p].hash = NewCommits(p)[1].hash

\* C15 witness: an OnUpdate of an object written with kind CONFIGMAP is about
\* to return after its commit "configmap.v1..yaml modified".
C15_Witness ==
    \E p \in Procs :
        /\ handler[p] = "OnUpdate"
        /\ obj[p].kind = "CONFIGMAP"
        /\ pc[p] = "ret"
        /\ Faultless(p)
        /\ Len(NewCommits(p)) = 1
        /\ NewCommits(p)[1].message =
               <<"configmap", ".", "v1", ".", "", ".yaml", " modified">>

\* The signature fields of a commit.
SystemIdentity ==
    [name |-> "config-history-operator",
     email |-> "config-history-operator@openshift.io"]

\* C16 (dual identity): every commit of the history, whichever handler made
\* it, has the author config-history-operator
\* <config-history-operator@openshift.io> and the committer operator
\* <operator@openshift.io>.
C16_DualIdentity ==
    \A i \in DOMAIN objects :
        /\ objects[i].author = SystemIdentity
        /\ objects[i].committer.name = "operator"
        /\ objects[i].committer.email = <<"operator", "@openshift.io">>

\* C16 witness: the history holds a commit made by OnDelete after one made
\* by OnAdd or OnUpdate in this run.
C16_Witness ==
    \E i, j \in DOMAIN objects :
        /\ i < j
        /\ objects[i].event >= 1
        /\ objects[i].message[Len(objects[i].message)] \in {" added", " modified"}
        /\ objects[j].message[Len(objects[j].message)] = " removed"

\* The tree of the parent of a commit (the empty tree for a root commit).
ParentTree(c) == TreeOf(objects, c.parent)

\* The files whose presence or content differs between a commit and its parent.
Delta(c) ==
    {n \in DOMAIN c.tree \cup DOMAIN ParentTree(c) :
        ~(Has(c.tree, n) /\ Has(ParentTree(c), n) /\ c.tree[n] = ParentTree(c)[n])}

\* C17 (no empty commits): every commit of the history has a tree that
\* differs from the tree of its parent.
C17_NoEmptyCommits ==
    \A i \in DOMAIN objects : Delta(objects[i]) # {}

\* The file a commit message names: "<name> added", "<name> modified" or
\* "\"<name>\" removed", where a name has six tokens.
MessageFile(message) ==
    IF message[Len(message)] = " removed"
    THEN SubSeq(message, 2, Len(message) - 2)
    ELSE SubSeq(message, 1, Len(message) - 1)

\* C20 (commit delta confined to the event's file): every commit made by an
\* event changes, relative to its parent, only the file its message names.
C20_DeltaConfined ==
    \A i \in DOMAIN objects :
        objects[i].event >= 1 =>
            Delta(objects[i]) \subseteq {MessageFile(objects[i].message)}

\* The file of a type: the lowercased kind, the version and the group.
TypeFile(o) == <<ToLower(o.kind), ".", o.version, ".", o.group, ".yaml">>

\* C18 (type-keyed files): the file an event targets depends only on the
\* lowercased kind, version and group of its object, never on the instance
\* name; a successful write stage leaves that file holding the state of the
\* event's own object whatever instance it held before, and a successful
\* delete stage removes it whatever instance it held.
C18_TypeKeyedFiles ==
    \A p \in Procs :
        (InCall(p) /\ Ran(p, "decode") /\ pc[p] # "panic") =>
            /\ local[p].name = TypeFile(obj[p])
            /\ \A q \in Procs :
                   ( /\ InCall(q) /\ Ran(q, "decode") /\ pc[q] # "panic"
                     /\ ToLower(obj[q].kind) = ToLower(obj[p].kind)
                     /\ obj[q].version = obj[p].version
                     /\ obj[q].group = obj[p].group ) => local[q].name = local[p].name
            /\ (pc[p] = "commit" /\ handler[p] # "OnDelete") =>
                   /\ Has(wt, TypeFile(obj[p]))
                   /\ wt[TypeFile(obj[p])] = objectYAML(obj[p])
            /\ (pc[p] = "commit" /\ handler[p] = "OnDelete") =>
                   ~Has(wt, TypeFile(obj[p]))

\* C18 witness: the repository starts with instance a of ConfigMap committed,
\* an add of instance b has replaced the file content, and a delete of
\* instance a has just removed the file that held instance b.
C18_Witness ==
    \E p \in Procs :
        /\ handler[p] = "OnDelete"
        /\ pc[p] = "commit"
        /\ obj[p].kind = "ConfigMap" /\ obj[p].name = "a"
        /\ objects # <<>>
        /\ objects[1].tree = (TypeFile(obj[p]) :> <<"ConfigMap", "a", "1">>)
        /\ Has(atLock[p].wt, TypeFile(obj[p]))
        /\ atLock[p].wt[TypeFile(obj[p])] = <<"CONFIGMAP", "b", "1">>
        /\ ~Has(wt, TypeFile(obj[p]))

\* The caller waits in s.Lock().
Waiting(p) == pc[p] = "lock"

\* write calls itself at most once, whatever fails inside it.
ReentersAtMostOnce ==
    \A p \in Procs :
        pc[p] = "write" =>
            \A f \in WriteFaults(local[p].content) :
                write(wt, local[p].name, local[p].content, f).reentries <= 1

\* C19 as stated (lock release and progress): every caller that holds the
\* lock eventually releases it, and every caller that waits for the lock
\* eventually gets it and runs its operation.
C19_ReleaseAndProgress ==
    \A p \in Procs :
        /\ (mu = p) ~> (mu # p)
        /\ Waiting(p) ~> (mu = p)

\* C19 amended: write calls itself at most once per call; every caller that
\* holds the lock eventually releases it, on return and on its own panic,
\* unless the panic of another caller ends the process first; and every
\* caller that waits for the lock eventually gets it unless a panic ends the
\* process first.
C19_ReleaseAndProgressUntilExit ==
    /\ []ReentersAtMostOnce
    /\ \A p \in Procs :
           /\ (mu = p) ~> (mu # p \/ (crashed /\ pc[p] # "gone"))
           /\ Waiting(p) ~> (mu = p \/ crashed)

\* C19 witness: a caller panicked and its deferred Unlock released the lock;
\* the caller that locked after it holds the lock and has come through a
\* write that removed the existing file and called itself.
C19_Witness ==
    \E p, q \in Procs :
        /\ pc[p] = "gone"
        /\ ~crashed
        /\ mu = q
        /\ ticket[p] < ticket[q]
        /\ pc[q] = "commit"
        /\ handler[q] # "OnDelete"
        /\ Has(atLock[q].wt, local[q].name)
        /\ write(atLock[q].wt, local[q].name, local[q].content,
                 [at |-> "none", k |-> 0]).reentries = 1

====
